---------------------------- MODULE Spec2Model ----------------------------
(***************************************************************************)
(* A model of src/transcribe_audio.py: the audio transcription pipeline    *)
(* (validate -> read -> MIME -> credential -> remote call -> response      *)
(* handling -> transcript clean-up -> filename synthesis -> report write)  *)
(* and the CLI driver around it.                                           *)
(*                                                                         *)
(* Text is modelled character by character: a Python str is a sequence of  *)
(* one-character strings, and str.replace, str.strip, str.split, the `in`  *)
(* test, str.lower and the regular expressions of the source are computed  *)
(* on those sequences the way Python computes them.                        *)
(***************************************************************************)
EXTENDS Integers, Sequences, FiniteSets, TLC

(***************************************************************************)
(* Characters and the str methods the program uses.                        *)
(***************************************************************************)
UpperLetters ==
    <<"A", "B", "C", "D", "E", "F", "G", "H", "I", "J", "K", "L", "M",
      "N", "O", "P", "Q", "R", "S", "T", "U", "V", "W", "X", "Y", "Z">>

LowerLetters ==
    <<"a", "b", "c", "d", "e", "f", "g", "h", "i", "j", "k", "l", "m",
      "n", "o", "p", "q", "r", "s", "t", "u", "v", "w", "x", "y", "z">>

DigitChars ==
    <<"0", "1", "2", "3", "4", "5", "6", "7", "8", "9">>

Range(f) ==
    {f[i] : i \in DOMAIN f}

\* [A-Za-z]
Letters ==
    Range(UpperLetters) \cup Range(LowerLetters)

\* \d
Digits ==
    Range(DigitChars)

\* \s, and the characters str.strip() and str.split() treat as blank
Whitespace ==
    {" ", "\n", "\t", "\r"}

\* \w
WordChars ==
    Letters \cup Digits \cup {"_"}

\* one character of str.lower()
ToLowerChar(c) ==
    IF \E i \in DOMAIN UpperLetters : UpperLetters[i] = c
    THEN LowerLetters[CHOOSE i \in DOMAIN UpperLetters : UpperLetters[i] = c]
    ELSE c

\* str.lower()
Lower(s) ==
    [i \in DOMAIN s |-> ToLowerChar(s[i])]

\* the first index j >= i of s with (s[j] \in set) = want; Len(s) + 1 when
\* there is none
FirstWhere(s, i, set, want) ==
    CHOOSE j \in i..(Len(s) + 1) :
        /\ j > Len(s) \/ (s[j] \in set) = want
        /\ \A k \in i..(j - 1) : (s[k] \in set) # want

\* the last index j <= i of s with (s[j] \in set) = want; 0 when there is none
LastWhere(s, i, set, want) ==
    CHOOSE j \in 0..i :
        /\ j = 0 \/ (s[j] \in set) = want
        /\ \A k \in (j + 1)..i : (s[k] \in set) # want

\* str.strip()
Strip(s) ==
    SubSeq(s, FirstWhere(s, 1, Whitespace, FALSE),
              LastWhere(s, Len(s), Whitespace, FALSE))

\* p occurs in s at index i
MatchAt(s, p, i) ==
    /\ i + Len(p) - 1 <= Len(s)
    /\ \A k \in 1..Len(p) : s[i + k - 1] = p[k]

\* str.startswith(p)
StartsWith(s, p) ==
    MatchAt(s, p, 1)

\* str.endswith(p)
EndsWith(s, p) ==
    Len(p) <= Len(s) /\ MatchAt(s, p, Len(s) - Len(p) + 1)

\* p in s
Contains(s, p) ==
    \E i \in 1..(Len(s) - Len(p) + 1) : MatchAt(s, p, i)

\* the least element of a non-empty set of integers
Min(S) ==
    CHOOSE x \in S : \A y \in S : x <= y

\* the index >= i of the first occurrence of p in s, 0 when there is none
\* (str.find)
FindFrom(s, p, i) ==
    LET at == {j \in i..(Len(s) - Len(p) + 1) : MatchAt(s, p, j)}
    IN IF at = {} THEN 0 ELSE Min(at)

RECURSIVE RemoveFrom(_, _, _)
\* s[i:] without the occurrences of p a left-to-right scan finds: each scan
\* resumes right after the occurrence it removed
RemoveFrom(s, p, i) ==
    LET m == FindFrom(s, p, i)
    IN IF m = 0 THEN SubSeq(s, i, Len(s))
       ELSE SubSeq(s, i, m - 1) \o RemoveFrom(s, p, m + Len(p))

\* str.replace(p, ""): one left-to-right scan over non-overlapping matches
Remove(s, p) ==
    RemoveFrom(s, p, 1)

RECURSIVE SplitAt(_, _, _)
\* the pieces of s[i:] between the occurrences of the character sep
SplitAt(s, sep, i) ==
    LET m == FirstWhere(s, i, {sep}, TRUE)
    IN IF m > Len(s) THEN <<SubSeq(s, i, Len(s))>>
       ELSE <<SubSeq(s, i, m - 1)>> \o SplitAt(s, sep, m + 1)

\* str.split(sep) for a one-character separator
Split(s, sep) ==
    SplitAt(s, sep, 1)

RECURSIVE RunsAt(_, _, _, _)
\* the maximal runs, in s[i:], of characters c with (c \in set) = want, in order
RunsAt(s, i, set, want) ==
    LET b == FirstWhere(s, i, set, want)
        e == FirstWhere(s, b, set, ~want)
    IN IF b > Len(s) THEN <<>>
       ELSE <<SubSeq(s, b, e - 1)>> \o RunsAt(s, e, set, want)

\* str.split(): the maximal runs of non-blank characters
SplitWords(s) ==
    RunsAt(s, 1, Whitespace, FALSE)

RECURSIVE Join(_, _)
\* sep.join(ws)
Join(ws, sep) ==
    IF ws = <<>> THEN <<>>
    ELSE IF Len(ws) = 1 THEN ws[1]
    ELSE ws[1] \o sep \o Join(Tail(ws), sep)

\* s[:n]
Take(s, n) ==
    IF Len(s) <= n THEN s ELSE SubSeq(s, 1, n)

\* str.isalpha()
IsAlpha(s) ==
    s # <<>> /\ \A i \in DOMAIN s : s[i] \in Letters

(***************************************************************************)
(* The transcript clean-up of transcribe_audio.                            *)
(***************************************************************************)
HEADER ==
    <<"#", " ", "T", "r", "a", "n", "s", "c", "r", "i", "p", "t", "i", "o",
      "n", "\n", "\n">>

GREETING_OKAY ==
    <<"O", "k", "a", "y", ",", " ", "h", "e", "r", "e", " ", "i", "s", " ",
      "t", "h", "e", " ", "t", "r", "a", "n", "s", "c", "r", "i", "p", "t",
      "i", "o", "n", ":", "\n">>

GREETING_HERES ==
    <<"H", "e", "r", "e", "'", "s", " ", "t", "h", "e", " ", "t", "r", "a",
      "n", "s", "c", "r", "i", "p", "t", "i", "o", "n", ":", "\n">>

SPEAKER_PREFIX ==
    <<"S", "p", "e", "a", "k", "e", "r", " ">>

BOLD ==
    <<"*", "*">>

\* f"Speaker {i}:"
SpeakerLabel(i) ==
    SPEAKER_PREFIX \o <<DigitChars[i + 1], ":">>

\* f"**Speaker {i}:**"
BoldSpeakerLabel(i) ==
    BOLD \o SpeakerLabel(i) \o BOLD

\* range(1, 10)
SpeakerNumbers ==
    1..9

\* the three replace calls and the strip that follow the extraction
StripBoilerplate(t) ==
    Strip(Remove(Remove(Remove(t, HEADER), GREETING_OKAY), GREETING_HERES))

\* line.strip().startswith(('Speaker ', '**Speaker '))
IsSpeakerLine(line) ==
    \/ StartsWith(Strip(line), SPEAKER_PREFIX)
    \/ StartsWith(Strip(line), BOLD \o SPEAKER_PREFIX)

\* the set speaker_labels built by the loop over the lines
SpeakerLabels(t) ==
    LET lines == Split(t, "\n")
        labelled == {k \in DOMAIN lines : IsSpeakerLine(lines[k])}
    IN {i \in SpeakerNumbers :
           \E k \in labelled :
               \/ Contains(lines[k], SpeakerLabel(i))
               \/ Contains(lines[k], BoldSpeakerLabel(i))}

\* the removal of the speaker 1 labels when exactly one speaker was counted
CollapseSingleSpeaker(t) ==
    IF Cardinality(SpeakerLabels(t)) = 1
    THEN Strip(Remove(Remove(t, BoldSpeakerLabel(1)), SpeakerLabel(1)))
    ELSE t

\* the whole clean-up: what transcribe_audio returns for the extracted text
Normalize(raw) ==
    CollapseSingleSpeaker(StripBoilerplate(raw))

(***************************************************************************)
(* pathlib: the final component of a path, its suffix and its stem.        *)
(***************************************************************************)
\* the last index <= i at which c stands in s, 0 when there is none (str.rfind)
LastIndexOf(s, c, i) ==
    LastWhere(s, i, {c}, TRUE)

\* Path(p).name
PathName(p) ==
    SubSeq(p, LastIndexOf(p, "/", Len(p)) + 1, Len(p))

\* the index of the dot that starts the suffix, 0 when the name has no suffix
SuffixDot(name) ==
    LET i == LastIndexOf(name, ".", Len(name))
    IN IF 1 < i /\ i < Len(name) THEN i ELSE 0

\* Path(p).suffix
Suffix(p) ==
    LET name == PathName(p)
        i == SuffixDot(name)
    IN IF i = 0 THEN <<>> ELSE SubSeq(name, i, Len(name))

\* Path(p).stem
Stem(p) ==
    LET name == PathName(p)
        i == SuffixDot(name)
    IN IF i = 0 THEN name ELSE SubSeq(name, 1, i - 1)

(***************************************************************************)
(* The extension table, the validator and the MIME lookup.                 *)
(***************************************************************************)
EXT_MP3 ==
    <<".", "m", "p", "3">>

EXT_WAV ==
    <<".", "w", "a", "v">>

EXT_OGG ==
    <<".", "o", "g", "g">>

EXT_M4A ==
    <<".", "m", "4", "a">>

EXT_MP4 ==
    <<".", "m", "p", "4">>

EXT_AAC ==
    <<".", "a", "a", "c">>

EXT_WEBM ==
    <<".", "w", "e", "b", "m">>

AUDIO_EXTENSIONS_TO_MIME ==
    (EXT_MP3 :> "audio/mpeg") @@ (EXT_WAV :> "audio/wav") @@
    (EXT_OGG :> "audio/ogg") @@ (EXT_M4A :> "audio/mp4") @@
    (EXT_MP4 :> "audio/mp4") @@ (EXT_AAC :> "audio/aac") @@
    (EXT_WEBM :> "audio/webm")

DEFAULT_MIME ==
    "audio/mp4"

SUPPORTED_AUDIO_TYPES ==
    {"audio/mpeg", "audio/wav", "audio/ogg", "audio/x-m4a", "audio/mp4",
     "audio/x-wav", "audio/webm", "audio/aac", "audio/x-aac", "video/mp4",
     "application/octet-stream"}

\* a lookup that forgets .lower()
get_gemini_mime_type_case_sensitive(file_path) ==
    LET file_ext == Suffix(file_path)
    IN IF file_ext \in DOMAIN AUDIO_EXTENSIONS_TO_MIME
       THEN AUDIO_EXTENSIONS_TO_MIME[file_ext]
       ELSE DEFAULT_MIME

get_gemini_mime_type(file_path) ==
    LET file_ext == Lower(Suffix(file_path))
    IN IF file_ext \in DOMAIN AUDIO_EXTENSIONS_TO_MIME
       THEN AUDIO_EXTENSIONS_TO_MIME[file_ext]
       ELSE DEFAULT_MIME

\* a validator that asks whether the MIME type looked up is a supported one
is_audio_file_by_mime(file_path) ==
    get_gemini_mime_type(file_path) \in SUPPORTED_AUDIO_TYPES

is_audio_file(file_path) ==
    Lower(Suffix(file_path)) \in DOMAIN AUDIO_EXTENSIONS_TO_MIME

(***************************************************************************)
(* generate_descriptive_filename.                                          *)
(***************************************************************************)
PreviewLen ==
    100

MinWordLen ==
    3

MaxDescWords ==
    4

FallbackWords ==
    3

MaxDescLen ==
    50

common_words ==
    {<<"a", "b", "o", "u", "t">>, <<"a", "b", "o", "v", "e">>,
     <<"a", "f", "t", "e", "r">>, <<"a", "m", "o", "n", "g">>,
     <<"a", "n", "d">>, <<"a", "r", "e">>, <<"b", "e", "e", "n">>,
     <<"b", "e", "f", "o", "r", "e">>, <<"b", "e", "l", "o", "w">>,
     <<"b", "e", "t", "w", "e", "e", "n">>, <<"b", "u", "t">>,
     <<"c", "a", "n">>, <<"c", "o", "u", "l", "d">>,
     <<"d", "u", "r", "i", "n", "g">>, <<"e", "a", "c", "h">>,
     <<"f", "o", "r">>, <<"f", "r", "o", "m">>, <<"h", "a", "v", "e">>,
     <<"h", "o", "w">>, <<"i", "n", "t", "o">>, <<"n", "o", "t">>,
     <<"o", "v", "e", "r">>, <<"s", "a", "i", "d">>, <<"s", "h", "e">>,
     <<"s", "h", "o", "u", "l", "d">>, <<"t", "h", "a", "t">>,
     <<"t", "h", "e">>, <<"t", "h", "e", "i", "r">>,
     <<"t", "h", "e", "y">>, <<"t", "h", "i", "s">>,
     <<"t", "h", "r", "o", "u", "g", "h">>, <<"w", "a", "s">>,
     <<"w", "h", "a", "t">>, <<"w", "h", "e", "n">>,
     <<"w", "h", "e", "r", "e">>, <<"w", "h", "i", "c", "h">>,
     <<"w", "h", "o">>, <<"w", "h", "y">>, <<"w", "i", "l", "l">>,
     <<"w", "i", "t", "h">>, <<"w", "o", "u", "l", "d">>,
     <<"y", "o", "u">>}

\* .replace('\n', ' ').replace('\r', ' ')
NewlinesToSpaces(s) ==
    [i \in DOMAIN s |-> IF s[i] \in {"\n", "\r"} THEN " " ELSE s[i]]

\* where a match of Speaker \d+:\s* that starts at i ends (exclusive); 0: no match
LabelMatchEnd(s, i) ==
    IF ~MatchAt(s, SPEAKER_PREFIX, i) THEN 0
    ELSE LET d == i + Len(SPEAKER_PREFIX)
             c == FirstWhere(s, d, Digits, FALSE)
         IN IF c > d /\ c <= Len(s) /\ s[c] = ":"
            THEN FirstWhere(s, c + 1, Whitespace, FALSE)
            ELSE 0

RECURSIVE RemoveLabelsFrom(_, _)
\* s[i:] without the matches a left-to-right scan finds
RemoveLabelsFrom(s, i) ==
    LET at == {j \in i..Len(s) : LabelMatchEnd(s, j) # 0}
    IN IF at = {} THEN SubSeq(s, i, Len(s))
       ELSE SubSeq(s, i, Min(at) - 1)
                \o RemoveLabelsFrom(s, LabelMatchEnd(s, Min(at)))

\* re.sub(r'Speaker \d+:\s*', '', preview)
RemoveSpeakerLabels(s) ==
    RemoveLabelsFrom(s, 1)

\* re.findall(r'\b[A-Za-z]{3,}\b', s): a match is a maximal run of \w
\* characters that holds letters only, at least three of them
FindWords(s) ==
    SelectSeq(RunsAt(s, 1, WordChars, TRUE),
              LAMBDA w : Len(w) >= MinWordLen /\ IsAlpha(w))

LowerAll(ws) ==
    [i \in DOMAIN ws |-> Lower(ws[i])]

\* [word.lower() for word in words if word.lower() not in common_words]
MeaningfulWords(text) ==
    LET preview == RemoveSpeakerLabels(NewlinesToSpaces(Take(Strip(text), PreviewLen)))
    IN SelectSeq(LowerAll(FindWords(preview)), LAMBDA w : w \notin common_words)

\* the words of the fallback branch: the alphabetic ones of text.split()[:3]
FallbackDescWords(text) ==
    SelectSeq(LowerAll(Take(SplitWords(Strip(text)), FallbackWords)), IsAlpha)

\* re.sub(r'[^\w\s-]', '', d)
KeepWordSpaceHyphen(d) ==
    SelectSeq(d, LAMBDA c : c \in WordChars \cup Whitespace \cup {"-"})

RECURSIVE CollapseAt(_, _)
\* d[i:] with each maximal run of hyphens and blanks replaced by one "_"
CollapseAt(d, i) ==
    LET seps == Whitespace \cup {"-"}
        b == FirstWhere(d, i, seps, TRUE)
    IN IF b > Len(d) THEN SubSeq(d, i, Len(d))
       ELSE SubSeq(d, i, b - 1) \o <<"_">>
                \o CollapseAt(d, FirstWhere(d, b, seps, FALSE))

\* re.sub(r'[-\s]+', '_', d)
CollapseSeparators(d) ==
    CollapseAt(d, 1)

TRANSCRIPT_FALLBACK ==
    <<"t", "r", "a", "n", "s", "c", "r", "i", "p", "t">>

\* a description without the fallback for an empty one
Description_NoFallback(transcript_text) ==
    LET meaningful_words == MeaningfulWords(transcript_text)
        joined == IF meaningful_words # <<>>
                  THEN Join(Take(meaningful_words, MaxDescWords), <<"_">>)
                  ELSE Join(FallbackDescWords(transcript_text), <<"_">>)
    IN Take(CollapseSeparators(KeepWordSpaceHyphen(joined)), MaxDescLen)

\* the description part of the file name
Description(transcript_text) ==
    LET meaningful_words == MeaningfulWords(transcript_text)
        joined == IF meaningful_words # <<>>
                  THEN Join(Take(meaningful_words, MaxDescWords), <<"_">>)
                  ELSE Join(FallbackDescWords(transcript_text), <<"_">>)
        cleaned == CollapseSeparators(KeepWordSpaceHyphen(joined))
        limited == Take(cleaned, MaxDescLen)
    IN IF limited = <<>> THEN TRANSCRIPT_FALLBACK ELSE limited

MD_SUFFIX ==
    <<".", "m", "d">>

\* f"{description}_{original_name}_{timestamp}.md"; timestamp is the value of
\* datetime.now().strftime("%Y%m%d_%H%M%S") at the call
generate_descriptive_filename(transcript_text, original_filename, timestamp) ==
    Description(transcript_text) \o <<"_">> \o Stem(original_filename)
        \o <<"_">> \o timestamp \o MD_SUFFIX

(***************************************************************************)
(* The state of one run.                                                   *)
(***************************************************************************)
VARIABLES
    entry,         \* "main": the CLI driver runs; "direct": transcribe_audio is called
    audio_path,    \* the path given
    file_exists,   \* whether the path names an existing file
    api_key,       \* os.getenv('GOOGLE_AI_API_KEY')
    pc,            \* the position in the code
    file_reads,    \* how often the audio file was opened and read
    mime_type,     \* the MIME type put in the request
    calls,         \* how often model.generate_content was called
    response,      \* what the call returned
    text_outcome,  \* how the access to response.text ended
    raw,           \* the text taken from the response
    transcript,    \* what transcribe_audio returned
    renorm,        \* the clean-up applied to a transcript once more
    timestamp,     \* datetime.now() as formatted into the file name
    filename,      \* the synthesized file name
    out_files,     \* the files this run created under the output directory
    error,         \* the failure of the run, "none" while there is none
    failed_at,     \* the position at which it failed
    exit_code      \* what main returned, -1 while it has not returned

vars ==
    <<entry, audio_path, file_exists, api_key, pc, file_reads, mime_type,
      calls, response, text_outcome, raw, transcript, renorm, timestamp,
      filename, out_files, error, failed_at, exit_code>>

\* an unset str variable (None)
NONE ==
    <<"<None>">>

(***************************************************************************)
(* The inputs the model draws.                                             *)
(***************************************************************************)
\* how many content parts a response holds at most
MaxParts ==
    2

\* how many fragments a raw text given to the clean-up is made of at most
MaxNormFrags ==
    4

\* how many fragments a transcript given to the file name synthesis is made
\* of at most
MaxNameFrags ==
    3

Paths ==
    {<<"a", ".", "m", "p", "3">>,
     <<"b", ".", "M", "P", "3">>,
     <<"c", ".", "W", "a", "v">>,
     <<"d", ".", "o", "g", "g">>,
     <<"e", ".", "m", "4", "a">>,
     <<"f", ".", "M", "P", "4">>,
     <<"g", ".", "a", "a", "c">>,
     <<"h", ".", "w", "e", "b", "m">>,
     <<"n", "o", "t", "e", "s", ".", "t", "x", "t">>,
     <<"n", "o", "e", "x", "t">>,
     <<".", "m", "p", "3">>,
     <<"i", "n", "/", "x", ".", "y", ".", "o", "g", "g">>,
     <<"q", "?", ".", "m", "4", "a">>,
     <<"d", ".", "m", "p", "3", "/", "r", "a", "w">>}

\* unset, set to the empty string, set
ApiKeys ==
    {NONE, <<>>, <<"k", "e", "y">>}

Timestamps ==
    {<<"2", "0", "2", "4", "0", "1", "0", "2", "_", "0", "3", "0", "4", "0", "5">>,
     <<"2", "0", "2", "6", "1", "1", "0", "1", "_", "2", "3", "5", "9", "5", "9">>}

\* the text field of a content part: empty for a part without text
PartTexts ==
    {<<>>,
     <<"h", "i">>,
     <<"S", "p", "e", "a", "k", "e", "r", " ", "1", ":", " ", "y", "o">>}

PartLists ==
    UNION {[1..n -> [text : PartTexts]] : n \in 0..MaxParts}

\* a response: no candidate, a candidate without content, or a candidate
\* whose content has the parts given
Responses ==
    {[candidates |-> <<>>]}
        \cup {[candidates |-> <<[has_content |-> FALSE, parts |-> <<>>]>>]}
        \cup {[candidates |-> <<[has_content |-> TRUE, parts |-> ps]>>] :
                 ps \in PartLists}

\* response.text is a property of the client library: it returns the text or
\* raises, a ValueError or something else
TextOutcomes ==
    {"ok", "ValueError", "OtherError"}

RECURSIVE Concat(_)
Concat(ss) ==
    IF ss = <<>> THEN <<>> ELSE Head(ss) \o Concat(Tail(ss))

\* all texts made of at most n fragments of frags
TextsOf(frags, n) ==
    {Concat(fs) : fs \in UNION {[1..k -> frags] : k \in 0..n}}

NormFragments ==
    {SPEAKER_PREFIX, <<"1", ":">>, <<"2", ":">>, BOLD, <<" ">>, <<"\n">>,
     <<"h", "i">>,
     <<"#", " ", "T", "r", "a", "n", "s", "c", "r", "i", "p", "t", "i", "o", "n">>,
     <<"H", "e", "r", "e", "'", "s", " ", "t", "h", "e", " ", "t", "r", "a",
       "n", "s", "c", "r", "i", "p", "t", "i", "o", "n", ":">>,
     <<"O", "k", "a", "y", ",", " ", "h", "e", "r", "e", " ", "i", "s", " ",
       "t", "h", "e", " ", "t", "r", "a", "n", "s", "c", "r", "i", "p", "t",
       "i", "o", "n", ":">>}

NormTexts ==
    TextsOf(NormFragments, MaxNormFrags)

NameFragments ==
    {<<"h", "i">>, <<"t", "h", "e">>, <<"H", "e", "l", "l", "o">>,
     [i \in 1..40 |-> "x"], <<" ">>, <<"\n">>, <<"-">>, <<"_">>, <<"!">>,
     <<"7">>, SpeakerLabel(1)}

NameTexts ==
    TextsOf(NameFragments, MaxNameFrags)

NamePaths ==
    {<<"a", ".", "m", "p", "3">>,
     <<"i", "n", "/", "x", ".", "y", ".", "o", "g", "g">>,
     <<"q", "?", ".", "m", "4", "a">>}

(***************************************************************************)
(* Control flow: a raised exception, and main's handler for it.            *)
(***************************************************************************)
\* an exception of the given kind leaves transcribe_audio or save_transcript;
\* main catches every exception and returns 1
Raise(kind) ==
    /\ error' = kind
    /\ failed_at' = pc
    /\ IF entry = "main"
       THEN pc' = "exit" /\ exit_code' = 1
       ELSE pc' = "raised" /\ exit_code' = exit_code

\* main prints the error and returns 1 itself
ReturnOne(kind) ==
    /\ error' = kind
    /\ failed_at' = pc
    /\ pc' = "exit"
    /\ exit_code' = 1

Goto(label) ==
    /\ pc' = label
    /\ UNCHANGED <<error, failed_at, exit_code>>

(***************************************************************************)
(* The response handling of transcribe_audio.                              *)
(***************************************************************************)
\* not response.candidates or not response.candidates[0].content
\* or not response.candidates[0].content.parts
IsBlocked(r) ==
    \/ r.candidates = <<>>
    \/ ~r.candidates[1].has_content
    \/ r.candidates[1].parts = <<>>

\* what response.text returns when it returns: the text of the parts of the
\* first candidate
DirectText(r) ==
    Concat([i \in DOMAIN r.candidates[1].parts |-> r.candidates[1].parts[i].text])

\* the indexes of the parts the fallback loop accepts
TextPartIndexes(r) ==
    {i \in DOMAIN r.candidates[1].parts : r.candidates[1].parts[i].text # <<>>}

\* the greatest element of a non-empty set of integers
Max(S) ==
    CHOOSE x \in S : \A y \in S : x >= y

\* a fallback loop without its break: the last text part wins
FallbackText_Last(r) ==
    r.candidates[1].parts[Max(TextPartIndexes(r))].text

\* the text the fallback loop breaks with
FallbackText(r) ==
    r.candidates[1].parts[Min(TextPartIndexes(r))].text

\* a check for an unset variable only: if api_key is None
get_api_key_raises_unset_only(key) ==
    key = NONE

\* if not api_key: raise ValueError
get_api_key_raises(key) ==
    key = NONE \/ key = <<>>

(***************************************************************************)
(* main, up to the call of transcribe_audio.                               *)
(***************************************************************************)
MainCheckExists ==
    /\ pc = "main_exists"
    /\ IF ~file_exists THEN ReturnOne("NotFound") ELSE Goto("main_format")
    /\ UNCHANGED <<entry, audio_path, file_exists, api_key, file_reads,
                   mime_type, calls, response, text_outcome, raw, transcript,
                   renorm, timestamp, filename, out_files>>

MainCheckFormat ==
    /\ pc = "main_format"
    /\ IF ~is_audio_file(audio_path)
       THEN ReturnOne("UnsupportedFormat")
       ELSE Goto("t_exists")
    /\ UNCHANGED <<entry, audio_path, file_exists, api_key, file_reads,
                   mime_type, calls, response, text_outcome, raw, transcript,
                   renorm, timestamp, filename, out_files>>

(***************************************************************************)
(* transcribe_audio.                                                       *)
(***************************************************************************)
TCheckExists ==
    /\ pc = "t_exists"
    /\ IF ~file_exists THEN Raise("NotFound") ELSE Goto("t_format")
    /\ UNCHANGED <<entry, audio_path, file_exists, api_key, file_reads,
                   mime_type, calls, response, text_outcome, raw, transcript,
                   renorm, timestamp, filename, out_files>>

TCheckFormat ==
    /\ pc = "t_format"
    /\ IF ~is_audio_file(audio_path)
       THEN Raise("UnsupportedFormat")
       ELSE Goto("t_read")
    /\ UNCHANGED <<entry, audio_path, file_exists, api_key, file_reads,
                   mime_type, calls, response, text_outcome, raw, transcript,
                   renorm, timestamp, filename, out_files>>

\* open(audio_path, 'rb') and read(): the file is read, or the open fails
TReadAudio ==
    /\ pc = "t_read"
    /\ \E ok \in BOOLEAN :
           IF ok
           THEN file_reads' = file_reads + 1 /\ Goto("t_mime")
           ELSE file_reads' = file_reads /\ Raise("ReadError")
    /\ UNCHANGED <<entry, audio_path, file_exists, api_key, mime_type, calls,
                   response, text_outcome, raw, transcript, renorm, timestamp,
                   filename, out_files>>

TMimeType ==
    /\ pc = "t_mime"
    /\ mime_type' = get_gemini_mime_type(audio_path)
    /\ Goto("t_configure")
    /\ UNCHANGED <<entry, audio_path, file_exists, api_key, file_reads, calls,
                   response, text_outcome, raw, transcript, renorm, timestamp,
                   filename, out_files>>

\* genai.configure(api_key=get_api_key())
TConfigure ==
    /\ pc = "t_configure"
    /\ IF get_api_key_raises(api_key)
       THEN Raise("ConfigurationError")
       ELSE Goto("t_generate")
    /\ UNCHANGED <<entry, audio_path, file_exists, api_key, file_reads,
                   mime_type, calls, response, text_outcome, raw, transcript,
                   renorm, timestamp, filename, out_files>>

\* the retry a loop around the call would make
TGenerate_Retry ==
    /\ pc = "t_generate"
    /\ calls < 2
    /\ calls' = calls + 1
    /\ \E raised \in BOOLEAN :
           IF raised
           THEN response' = response /\ Goto("t_generate")
           ELSE (\E r \in Responses : response' = r) /\ Goto("t_blocked")
    /\ UNCHANGED <<entry, audio_path, file_exists, api_key, file_reads,
                   mime_type, text_outcome, raw, transcript, renorm, timestamp,
                   filename, out_files>>

\* response = model.generate_content(content_parts): the call returns a
\* response or raises
TGenerate ==
    /\ pc = "t_generate"
    /\ calls' = calls + 1
    /\ \E raised \in BOOLEAN :
           IF raised
           THEN response' = response /\ Raise("RemoteError")
           ELSE (\E r \in Responses : response' = r) /\ Goto("t_blocked")
    /\ UNCHANGED <<entry, audio_path, file_exists, api_key, file_reads,
                   mime_type, text_outcome, raw, transcript, renorm, timestamp,
                   filename, out_files>>

TCheckBlocked ==
    /\ pc = "t_blocked"
    /\ IF IsBlocked(response)
       THEN Raise("TranscriptionBlocked")
       ELSE Goto("t_text")
    /\ UNCHANGED <<entry, audio_path, file_exists, api_key, file_reads,
                   mime_type, calls, response, text_outcome, raw, transcript,
                   renorm, timestamp, filename, out_files>>

\* transcript = response.text, with the fallback of the except ValueError
\* branch; any other exception leaves transcribe_audio
TExtractText ==
    /\ pc = "t_text"
    /\ \E o \in TextOutcomes :
           /\ text_outcome' = o
           /\ CASE o = "ok" ->
                     raw' = DirectText(response) /\ Goto("t_normalize")
                [] o = "ValueError" ->
                     IF TextPartIndexes(response) # {}
                     THEN raw' = FallbackText(response) /\ Goto("t_normalize")
                     ELSE raw' = raw /\ Raise("ExtractionError")
                [] OTHER ->
                     raw' = raw /\ Raise("OtherError")
    /\ UNCHANGED <<entry, audio_path, file_exists, api_key, file_reads,
                   mime_type, calls, response, transcript, renorm, timestamp,
                   filename, out_files>>

\* the clean-up, and the return
TNormalize ==
    /\ pc = "t_normalize"
    /\ transcript' = Normalize(raw)
    /\ Goto(IF entry = "main" THEN "s_mkdir" ELSE "returned")
    /\ UNCHANGED <<entry, audio_path, file_exists, api_key, file_reads,
                   mime_type, calls, response, text_outcome, raw, renorm,
                   timestamp, filename, out_files>>

(***************************************************************************)
(* save_transcript, and the end of main.                                   *)
(***************************************************************************)
\* output_path.mkdir(parents=True, exist_ok=True): done, or an OSError
SMkdir ==
    /\ pc = "s_mkdir"
    /\ \E ok \in BOOLEAN : IF ok THEN Goto("s_filename") ELSE Raise("WriteError")
    /\ UNCHANGED <<entry, audio_path, file_exists, api_key, file_reads,
                   mime_type, calls, response, text_outcome, raw, transcript,
                   renorm, timestamp, filename, out_files>>

SFilename ==
    /\ pc = "s_filename"
    /\ \E ts \in Timestamps :
           /\ timestamp' = ts
           /\ filename' = generate_descriptive_filename(transcript, audio_path, ts)
    /\ Goto("s_render")
    /\ UNCHANGED <<entry, audio_path, file_exists, api_key, file_reads,
                   mime_type, calls, response, text_outcome, raw, transcript,
                   renorm, out_files>>

\* the document is rendered: Path(original_audio_path).stat() gives the size,
\* or raises when the file has gone meanwhile
SRender ==
    /\ pc = "s_render"
    /\ \E ok \in BOOLEAN : IF ok THEN Goto("s_write") ELSE Raise("StatError")
    /\ UNCHANGED <<entry, audio_path, file_exists, api_key, file_reads,
                   mime_type, calls, response, text_outcome, raw, transcript,
                   renorm, timestamp, filename, out_files>>

\* a save_transcript that returns the path without writing the file
SWrite_Skipped ==
    /\ pc = "s_write"
    /\ Goto("main_done")
    /\ UNCHANGED <<entry, audio_path, file_exists, api_key, file_reads,
                   mime_type, calls, response, text_outcome, raw, transcript,
                   renorm, timestamp, filename, out_files>>

\* open(output_file, 'w') and f.write: the file is written; or the open
\* fails and there is no file; or the write fails and leaves a partial file
SWrite ==
    /\ pc = "s_write"
    /\ \E o \in {"written", "open_fails", "write_fails"} :
           CASE o = "written" ->
                  /\ out_files' = out_files
                         \cup {[name |-> filename, complete |-> TRUE]}
                  /\ Goto("main_done")
             [] o = "open_fails" ->
                  out_files' = out_files /\ Raise("WriteError")
             [] OTHER ->
                  /\ out_files' = out_files
                         \cup {[name |-> filename, complete |-> FALSE]}
                  /\ Raise("WriteError")
    /\ UNCHANGED <<entry, audio_path, file_exists, api_key, file_reads,
                   mime_type, calls, response, text_outcome, raw, transcript,
                   renorm, timestamp, filename>>

\* the success report, the preview and return 0
MainReturn ==
    /\ pc = "main_done"
    /\ pc' = "exit"
    /\ exit_code' = 0
    /\ UNCHANGED <<entry, audio_path, file_exists, api_key, file_reads,
                   mime_type, calls, response, text_outcome, raw, transcript,
                   renorm, timestamp, filename, out_files, error, failed_at>>

(***************************************************************************)
(* The run of the program: the CLI driver, or transcribe_audio called      *)
(* directly, on any path, with any credential.                             *)
(***************************************************************************)
Unset ==
    /\ file_reads = 0
    /\ mime_type = ""
    /\ calls = 0
    /\ response = [candidates |-> <<>>]
    /\ text_outcome = "none"
    /\ renorm = NONE
    /\ timestamp = NONE
    /\ filename = NONE
    /\ out_files = {}
    /\ error = "none"
    /\ failed_at = "none"
    /\ exit_code = -1

Init ==
    /\ entry \in {"main", "direct"}
    /\ audio_path \in Paths
    /\ file_exists \in BOOLEAN
    /\ api_key \in ApiKeys
    /\ pc = IF entry = "main" THEN "main_exists" ELSE "t_exists"
    /\ raw = NONE
    /\ transcript = NONE
    /\ Unset

Next ==
    \/ MainCheckExists
    \/ MainCheckFormat
    \/ TCheckExists
    \/ TCheckFormat
    \/ TReadAudio
    \/ TMimeType
    \/ TConfigure
    \/ TGenerate
    \/ TCheckBlocked
    \/ TExtractText
    \/ TNormalize
    \/ SMkdir
    \/ SFilename
    \/ SRender
    \/ SWrite
    \/ MainReturn

Spec ==
    Init /\ [][Next]_vars

(***************************************************************************)
(* The clean-up as a function of the text: transcribe_audio from the point *)
(* where the text has been extracted, and the clean-up applied once more   *)
(* to what it returned.                                                    *)
(***************************************************************************)
InitNorm ==
    /\ entry = "direct"
    /\ audio_path = <<"a", ".", "m", "p", "3">>
    /\ file_exists = TRUE
    /\ api_key = <<"k", "e", "y">>
    /\ pc = "t_normalize"
    /\ raw \in NormTexts
    /\ transcript = NONE
    /\ Unset

ReNormalize ==
    /\ pc = "returned"
    /\ renorm' = Normalize(transcript)
    /\ Goto("renormalized")
    /\ UNCHANGED <<entry, audio_path, file_exists, api_key, file_reads,
                   mime_type, calls, response, text_outcome, raw, transcript,
                   timestamp, filename, out_files>>

NextNorm ==
    \/ TNormalize
    \/ ReNormalize

SpecNorm ==
    InitNorm /\ [][NextNorm]_vars

(***************************************************************************)
(* The file name synthesis as a function of the transcript and the path:   *)
(* save_transcript at the call of generate_descriptive_filename.           *)
(***************************************************************************)
InitName ==
    /\ entry = "main"
    /\ audio_path \in NamePaths
    /\ file_exists = TRUE
    /\ api_key = <<"k", "e", "y">>
    /\ pc = "s_filename"
    /\ raw = NONE
    /\ transcript \in NameTexts
    /\ Unset

NextName ==
    SFilename

SpecName ==
    InitName /\ [][NextName]_vars

(***************************************************************************)
(* The claims.                                                             *)
(***************************************************************************)
FailuresBeforeWrite ==
    {"NotFound", "UnsupportedFormat", "ReadError", "ConfigurationError",
     "RemoteError", "TranscriptionBlocked", "ExtractionError", "OtherError",
     "StatError"}

\* C1: main returns 0 only if exactly one report file was written, whole;
\* and on every failure before the write step (a missing file, an
\* unsupported extension, a missing credential, a blocked or empty response,
\* a failed extraction, an exception of the remote call, a failed mkdir)
\* main returns 1 and no file has been written.
C1_ExitCodeAndOutput ==
    /\ exit_code = 0 =>
           /\ Cardinality(out_files) = 1
           /\ \A f \in out_files : f.complete /\ f.name = filename
    /\ (entry = "main" /\ error # "none" /\ failed_at # "s_write") =>
           /\ pc = "exit"
           /\ exit_code = 1
           /\ out_files = {}
    /\ (entry = "main" /\ error \in FailuresBeforeWrite) => failed_at # "s_write"

C1_Witness ==
    /\ pc = "exit"
    /\ exit_code = 1
    /\ error = "TranscriptionBlocked"
    /\ response.candidates = <<>>
    /\ out_files = {}

SupportedExtensions ==
    {EXT_MP3, EXT_WAV, EXT_OGG, EXT_M4A, EXT_MP4, EXT_AAC, EXT_WEBM}

HasSupportedExtension(path) ==
    \E e \in SupportedExtensions : Lower(Suffix(path)) = e

\* C2: when the path does not exist or its lower-cased extension is not a
\* supported one, the run never leaves the validation: the audio file is not
\* read and the remote call is not made, main returns 1, and transcribe_audio
\* called directly raises.
C2_RejectedBeforeCall ==
    (~file_exists \/ ~HasSupportedExtension(audio_path)) =>
        /\ calls = 0
        /\ file_reads = 0
        /\ pc \in {"main_exists", "main_format", "t_exists", "t_format",
                   "exit", "raised"}
        /\ pc = "exit" => exit_code = 1
        /\ pc \in {"exit", "raised"} => error \in {"NotFound", "UnsupportedFormat"}

C2_Witness ==
    /\ pc = "exit"
    /\ exit_code = 1
    /\ file_exists
    /\ error = "UnsupportedFormat"
    /\ calls = 0

KeyMissing ==
    api_key = NONE \/ api_key = <<>>

\* C3, as the spec states it: when the API key is missing or empty the run
\* fails with the configuration error before any I/O: the audio file has not
\* been opened or read and no call has been made.
C3_FailsBeforeAnyIO ==
    (KeyMissing /\ error = "ConfigurationError") =>
        file_reads = 0 /\ calls = 0

\* C3, amended: when the API key is missing or empty, the remote call is
\* never made and no file is written; a run that passes the validation and
\* reads the audio file fails with the configuration error, main returning 1,
\* and at that failure the audio file has already been read once.
C3_FailsBeforeCall ==
    KeyMissing =>
        /\ calls = 0
        /\ out_files = {}
        /\ pc \in {"main_exists", "main_format", "t_exists", "t_format",
                   "t_read", "t_mime", "t_configure", "exit", "raised"}
        /\ error = "ConfigurationError" =>
               file_reads = 1 /\ failed_at = "t_configure"
        /\ (pc \in {"exit", "raised"} /\ file_reads = 1) =>
               error = "ConfigurationError"
        /\ pc = "exit" => exit_code = 1

C3_Witness ==
    /\ api_key = <<>>
    /\ error = "ConfigurationError"
    /\ pc = "exit"
    /\ file_reads = 1

\* C4: the remote call is made at most once in a run; when the one attempt
\* fails (the call raises, the response is blocked, the extraction fails)
\* nothing is retried and main returns 1.
C4_SingleAttempt ==
    /\ calls <= 1
    /\ pc \in {"t_blocked", "t_text", "t_normalize"} => calls = 1
    /\ (entry = "main" /\ error \in {"RemoteError", "TranscriptionBlocked",
                                      "ExtractionError", "OtherError"}) =>
           /\ calls = 1
           /\ pc = "exit"
           /\ exit_code = 1

C4_Witness ==
    /\ error = "RemoteError"
    /\ calls = 1
    /\ pc = "exit"
    /\ exit_code = 1

\* C8: once the MIME type of the request is set, the lower-cased extension
\* of the path is one of the seven of the table and the MIME type is the
\* table's entry for it, whatever the case of the extension; so the default
\* of the lookup is never what the request gets.
C8_MimeFromTable ==
    (mime_type # "" \/ calls >= 1) =>
        /\ \E e \in SupportedExtensions : EndsWith(Lower(audio_path), e)
        /\ \A e \in SupportedExtensions :
               EndsWith(Lower(audio_path), e) =>
                   mime_type = AUDIO_EXTENSIONS_TO_MIME[e]

C8_Witness ==
    /\ calls = 1
    /\ audio_path = <<"b", ".", "M", "P", "3">>
    /\ mime_type = "audio/mpeg"

\* the response has been received and the blocked check has been made
ResponseChecked ==
    calls = 1 /\ error # "RemoteError" /\ pc # "t_blocked"

NoUsableContent ==
    \/ Len(response.candidates) = 0
    \/ ~response.candidates[1].has_content
    \/ Len(response.candidates[1].parts) = 0

\* raw is the text of the first content part whose text is not empty
RawIsFirstTextPart ==
    LET parts == response.candidates[1].parts
    IN \E k \in DOMAIN parts :
           /\ parts[k].text # <<>>
           /\ \A j \in 1..(k - 1) : parts[j].text = <<>>
           /\ raw = parts[k].text

NoTextPart ==
    \A k \in DOMAIN response.candidates[1].parts :
        response.candidates[1].parts[k].text = <<>>

\* what C9 says of a blocked response and of a direct extraction
C9_BlockedAndDirect ==
    /\ (ResponseChecked /\ NoUsableContent) =>
           /\ error = "TranscriptionBlocked"
           /\ raw = NONE
           /\ transcript = NONE
    /\ text_outcome = "ok" => raw = DirectText(response)
    /\ raw # NONE => text_outcome \in {"ok", "ValueError"}
    /\ transcript # NONE => raw # NONE

\* C9, as the spec states it: a response without candidate, content or
\* parts fails as blocked; otherwise the direct text is used, and whenever
\* the direct extraction fails, however it fails, the text is that of the
\* first part with a non-empty text, and the extraction error is raised when
\* there is no such part.
C9_FallbackOnAnyFailure ==
    /\ C9_BlockedAndDirect
    /\ text_outcome \in {"ValueError", "OtherError"} =>
           IF NoTextPart
           THEN error = "ExtractionError" /\ raw = NONE
           ELSE RawIsFirstTextPart /\ error # "ExtractionError"

\* C9, amended: as above, but the fallback to the content parts is taken
\* only when the direct extraction fails with a ValueError; any other
\* exception of the extraction leaves transcribe_audio, no text is returned
\* and the run fails.
C9_FallbackOnValueError ==
    /\ C9_BlockedAndDirect
    /\ text_outcome = "ValueError" =>
           IF NoTextPart
           THEN error = "ExtractionError" /\ raw = NONE
           ELSE RawIsFirstTextPart /\ error # "ExtractionError"
    /\ text_outcome = "OtherError" =>
           /\ error = "OtherError"
           /\ raw = NONE
           /\ transcript = NONE
           /\ entry = "main" => exit_code = 1

C9_Witness ==
    /\ text_outcome = "ValueError"
    /\ Len(response.candidates[1].parts) = 2
    /\ response.candidates[1].parts[1].text = <<>>
    /\ raw = <<"h", "i">>
    /\ transcript = <<"h", "i">>

\* C5: the clean-up is idempotent: applied to its own output it returns that
\* output.
C5_NormalizeIdempotent ==
    renorm # NONE => renorm = transcript

\* how many occurrences of p a left-to-right scan of s finds
Count(s, p) ==
    (Len(s) - Len(Remove(s, p))) \div Len(p)

\* C6: a text whose only speaker labels are 'Speaker 1:' labels is returned
\* without any occurrence of 'Speaker 1:'; a text that holds 'Speaker 1:'
\* and 'Speaker 2:' labels, wherever in a line, keeps every one of them.
C6_SingleSpeakerCollapse ==
    transcript # NONE =>
        /\ (/\ Contains(raw, SpeakerLabel(1))
            /\ \A i \in SpeakerNumbers \ {1} : ~Contains(raw, SpeakerLabel(i)))
               => ~Contains(transcript, SpeakerLabel(1))
        /\ (Contains(raw, SpeakerLabel(1)) /\ Contains(raw, SpeakerLabel(2)))
               => /\ Count(transcript, SpeakerLabel(1)) = Count(raw, SpeakerLabel(1))
                  /\ Count(transcript, SpeakerLabel(2)) = Count(raw, SpeakerLabel(2))

Boilerplate ==
    {HEADER, GREETING_OKAY, GREETING_HERES}

\* the text without its leading blanks
LStripped(s) ==
    SubSeq(s, FirstWhere(s, 1, Whitespace, FALSE), Len(s))

SafeFilenameChars ==
    WordChars \cup {".", "-"}

\* the file name is description + this
NameTail ==
    <<"_">> \o Stem(audio_path) \o <<"_">> \o timestamp \o MD_SUFFIX

\* the description component of the file name synthesized
NameDescription ==
    SubSeq(filename, 1, Len(filename) - Len(NameTail))

\* what C7 says of the description component: never empty, at most 50
\* characters, and 'transcript' when no word survives from the transcript
DescriptionBounds ==
    /\ NameDescription # <<>>
    /\ Len(NameDescription) <= MaxDescLen
    /\ (\A i \in DOMAIN transcript : transcript[i] \notin Letters)
           => NameDescription = TRANSCRIPT_FALLBACK
    /\ (MeaningfulWords(transcript) = <<>> /\ FallbackDescWords(transcript) = <<>>)
           => NameDescription = TRANSCRIPT_FALLBACK

\* C7, as the spec states it: for every transcript and every original path
\* the file name is not empty, ends in '.md' and holds filesystem-safe
\* characters only (word characters, '.' and '-'), and its description is
\* never empty, at most 50 characters, and 'transcript' when no word
\* survives.
C7_SafeFilename ==
    filename # NONE =>
        /\ filename # <<>>
        /\ EndsWith(filename, MD_SUFFIX)
        /\ \A i \in DOMAIN filename : filename[i] \in SafeFilenameChars
        /\ DescriptionBounds

\* C7, amended: the file name is description, '_', the stem of the original
\* path as it is, '_', the timestamp and '.md'; it is not empty and ends in
\* '.md'; its description holds word characters only, is never empty, at
\* most 50 characters, and 'transcript' when no word survives; so the name
\* is at most 50 characters longer than '_' stem '_' timestamp '.md', and its
\* characters are safe where the stem's are.
C7_SafeDescription ==
    filename # NONE =>
        /\ filename # <<>>
        /\ EndsWith(filename, MD_SUFFIX)
        /\ EndsWith(filename, NameTail)
        /\ Len(filename) <= MaxDescLen + Len(NameTail)
        /\ \A i \in DOMAIN NameDescription : NameDescription[i] \in WordChars
        /\ DescriptionBounds

C7_Witness ==
    /\ filename # NONE
    /\ transcript = <<"!">>
    /\ NameDescription = TRANSCRIPT_FALLBACK

=============================================================================
